---- MODULE Spec2Model ----
(***************************************************************************)
(* Model of the cache-demo repository:                                     *)
(*   src/main.py  Deque, Cache (node-based LRU), MultiLevelCache           *)
(*   src/slab.py  LRUCache (slab-based LRU)                                *)
(* Python objects are modelled as records, the object heap of DequeNode    *)
(* instances as a sequence indexed by allocation order, and None as -1.    *)
(***************************************************************************)
EXTENDS Integers, Sequences, FiniteSets, TLC

\* ---------------------------------------------------------------- bounds
MaxCap == 2
NumKeys == 3
MaxVal == 2
MaxNodes == 4
NumKeysML == 2
MaxNodesML == 3

None == -1
Keys == 1..NumKeys
Vals == 1..MaxVal
Caps == 1..MaxCap
MLKeys == 1..NumKeysML

\* c       the node-based Cache under test
\* pre     c as it was before the last operation
\* last    the last operation, its arguments and its result
\* written for each key, the value of the most recent put (None: never put)
\* err     the exception an operation raised ("none": no exception)
VARIABLES c, pre, last, written, err

\* lru     the slab-based LRUCache under test
\* lpre    lru as it was before the last operation
\* llast   the last operation on lru, its arguments and its result
\* lerr    the exception an operation on lru raised ("none": no exception)
VARIABLES lru, lpre, llast, lerr

\* ml      the MultiLevelCache under test
\* mpre    ml as it was before the last operation
\* mlast   the last operation on ml, its arguments, what fetch_func returned
\*         for the key, how often fetch_func was called, and the result
\* merr    the exception an operation on ml raised ("none": no exception)
VARIABLES ml, mpre, mlast, merr

\* db      the fetch function handed to every get_or_fetch call of a run:
\*         for each key, what fetch_func(key) returns
VARIABLES db

\* deque     the Deque under test
\* dpre      deque as it was before the last operation
\* dlast     the last operation on deque, its argument and what it returned
\* dmisused  whether remove_node was ever given a node that was not linked
\* derr      the exception an operation on deque raised ("none": no exception)
VARIABLES deque, dpre, dlast, dmisused, derr

cacheVars == <<c, pre, last, written, err>>

dequeVars == <<deque, dpre, dlast, dmisused, derr>>

slabVars == <<lru, lpre, llast, lerr>>

mlVars == <<ml, mpre, mlast, merr>>

vars == <<cacheVars, slabVars, mlVars, db, dequeVars>>

\* ------------------------------------------------- generic helpers
Without(f, k) == [x \in (DOMAIN f) \ {k} |-> f[x]]

With(f, k, v) == [x \in (DOMAIN f) \cup {k} |-> IF x = k THEN v ELSE f[x]]

Last(s) == s[Len(s)]

\* subsequence of s without the element k
SeqMinus(s, k) == SelectSeq(s, LAMBDA x : x # k)

\* ------------------------------------------------- src/main.py : DataResult
DataResult(found, data) == [found |-> found, data |-> data]

\* ------------------------------------------------- src/main.py : DequeNode
DequeNode(val) == [val |-> val, prev |-> None, nxt |-> None]

\* ------------------------------------------------- src/main.py : Deque
\* A deque is [head, tail, heap]: head and tail are node ids (or None) and
\* heap is the sequence of every DequeNode allocated by this deque so far.
Deque == [head |-> None, tail |-> None, heap |-> <<>>]

possibly_reset_pointers(d) ==
    IF d.head = None \/ d.tail = None
    THEN [d EXCEPT !.head = None, !.tail = None]
    ELSE d

\* returns the deque and the id of the new node
append(d, val) ==
    LET node == Len(d.heap) + 1
        h1   == Append(d.heap, DequeNode(val))
    IN  IF d.head = None /\ d.tail = None
        THEN [d |-> [head |-> node, tail |-> node, heap |-> h1], node |-> node]
        ELSE LET h2 == [h1 EXCEPT ![d.tail].nxt = node, ![node].prev = d.tail]
             IN  [d |-> [head |-> d.head, tail |-> h2[d.tail].nxt, heap |-> h2],
                  node |-> node]

\* pop_left that hands out the head without advancing it
pop_left_stuck(d) == [d |-> d, node |-> d.head]

\* returns the deque and the popped node id (None when empty)
pop_left(d) ==
    IF d.head = None
    THEN [d |-> d, node |-> None]
    ELSE [d |-> possibly_reset_pointers([d EXCEPT !.head = d.heap[d.head].nxt]),
          node |-> d.head]

\* returns the deque and whether the call raised
remove_node(d, node) ==
    IF d.head = None \/ d.tail = None
    THEN [d |-> d, raised |-> "invalid passed node"]
    ELSE LET prev == d.heap[node].prev
             nxt  == d.heap[node].nxt
             h1   == IF prev # None THEN [d.heap EXCEPT ![prev].nxt = nxt] ELSE d.heap
             h2   == IF nxt # None THEN [h1 EXCEPT ![nxt].prev = prev] ELSE h1
             hd   == IF d.head = node THEN nxt ELSE d.head
             tl   == IF d.tail = node THEN prev ELSE d.tail
         IN  [d |-> possibly_reset_pointers([head |-> hd, tail |-> tl, heap |-> h2]),
              raised |-> "none"]

RECURSIVE walk_nodes(_, _, _, _)
\* the node ids met from node p following nxt (fwd) or prev, at most n steps
walk_nodes(heap, p, fwd, n) ==
    IF p = None \/ n = 0 THEN <<>>
    ELSE <<p>> \o walk_nodes(heap, IF fwd THEN heap[p].nxt ELSE heap[p].prev, fwd, n - 1)

\* the nodes currently linked in the deque: those met from head following nxt
linked(d) ==
    LET w == walk_nodes(d.heap, d.head, TRUE, Len(d.heap) + 1)
    IN  {w[i] : i \in DOMAIN w}

RECURSIVE walk_nxt(_, _, _)
\* the vals met from node p following nxt, at most n steps
walk_nxt(heap, p, n) ==
    IF p = None \/ n = 0 THEN <<>>
    ELSE <<heap[p].val>> \o walk_nxt(heap, heap[p].nxt, n - 1)

\* the head-to-tail sequence of vals; one step more than there are nodes, so
\* a cycle shows up as a sequence longer than the heap
debug_print(d) == walk_nxt(d.heap, d.head, Len(d.heap) + 1)

\* ------------------------------------------------- src/main.py : Cache
CacheEntry(value, lru_node) == [value |-> value, lru_node |-> lru_node]

Cache(capacity) == [store |-> <<>>, capacity |-> capacity, lru_deque |-> Deque]

\* _size counting one entry too many
size_plus_one(cc) == Cardinality(DOMAIN cc.store) + 1

size(cc) == Cardinality(DOMAIN cc.store)

\* promotion that unlinks the node and never appends it again
remove_and_readd_node_drops(d, node) ==
    LET r == remove_node(d, node)
    IN  [d |-> r.d, node |-> node, raised |-> r.raised]

\* promotion that leaves the node where it is
remove_and_readd_node_noop(d, node) == [d |-> d, node |-> node, raised |-> "none"]

remove_and_readd_node(d, node) ==
    LET value == d.heap[node].val
        r     == remove_node(d, node)
        a     == append(r.d, value)
    IN  IF r.raised # "none"
        THEN [d |-> r.d, node |-> None, raised |-> r.raised]
        ELSE [d |-> a.d, node |-> a.node, raised |-> "none"]

\* get that hands back the key kept in the node instead of the stored value
get_returns_key(cc, key) ==
    IF key \in DOMAIN cc.store
    THEN LET cache_entry == cc.store[key]
             r == remove_and_readd_node(cc.lru_deque, cache_entry.lru_node)
         IN  [c |-> [cc EXCEPT !.lru_deque = r.d,
                                !.store = With(cc.store, key,
                                               CacheEntry(cache_entry.value, r.node))],
              result |-> DataResult(TRUE, cc.lru_deque.heap[cache_entry.lru_node].val),
              raised |-> r.raised]
    ELSE [c |-> cc, result |-> DataResult(FALSE, None), raised |-> "none"]

get(cc, key) ==
    IF key \in DOMAIN cc.store
    THEN LET cache_entry == cc.store[key]
             r == remove_and_readd_node(cc.lru_deque, cache_entry.lru_node)
         IN  IF r.raised # "none"
             THEN [c |-> cc, result |-> DataResult(FALSE, None), raised |-> r.raised]
             ELSE [c |-> [cc EXCEPT !.lru_deque = r.d,
                                    !.store = With(cc.store, key,
                                                   CacheEntry(cache_entry.value, r.node))],
                   result |-> DataResult(TRUE, cache_entry.value),
                   raised |-> "none"]
    ELSE [c |-> cc, result |-> DataResult(FALSE, None), raised |-> "none"]

\* update that promotes the key but keeps the old value
put_update_keeps_value(cc, key, value) ==
    LET cache_entry == cc.store[key]
        r == remove_and_readd_node(cc.lru_deque, cache_entry.lru_node)
    IN  [c |-> [cc EXCEPT !.lru_deque = r.d,
                           !.store = With(cc.store, key,
                                          CacheEntry(cache_entry.value, r.node))],
         raised |-> r.raised]

\* Cache.put, update case (key already in store)
put_update(cc, key, value) ==
    LET cache_entry == cc.store[key]
        r == remove_and_readd_node(cc.lru_deque, cache_entry.lru_node)
    IN  IF r.raised # "none"
        THEN [c |-> cc, raised |-> r.raised]
        ELSE [c |-> [cc EXCEPT !.lru_deque = r.d,
                               !.store = With(cc.store, key, CacheEntry(value, r.node))],
              raised |-> "none"]

\* Cache.put, new insertion case (key not in store)
put_insert(cc, key, value) ==
    LET a  == append(cc.lru_deque, key)
        s1 == With(cc.store, key, CacheEntry(value, a.node))
        c1 == [cc EXCEPT !.lru_deque = a.d, !.store = s1]
    IN  IF size(c1) > cc.capacity
        THEN LET pl == pop_left(a.d)
             IN  IF pl.node = None
                 THEN [c |-> [c1 EXCEPT !.lru_deque = pl.d],
                       raised |-> "lru data structure is not in line with cache"]
                 ELSE [c |-> [c1 EXCEPT !.lru_deque = pl.d,
                                        !.store = Without(s1, pl.d.heap[pl.node].val)],
                       raised |-> "none"]
        ELSE [c |-> c1, raised |-> "none"]

put(cc, key, value) ==
    IF key \in DOMAIN cc.store
    THEN put_update(cc, key, value)
    ELSE put_insert(cc, key, value)

\* ------------------------------------------------- src/slab.py : LRUCache
\* A slab cell holds a CacheEntry (value, prev, nxt); a cell that was never
\* written (Python None) is EmptyCell.
SlabCacheEntry(value, prev, nxt) == [value |-> value, prev |-> prev, nxt |-> nxt]

EmptyCell == SlabCacheEntry(None, None, None)

LRUCache(capacity) ==
    [slab |-> [i \in 0..(capacity - 1) |-> EmptyCell],
     capacity |-> capacity,
     key_to_index |-> <<>>,
     head |-> None,
     tail |-> None,
     size |-> 0]

promote_to_mru(l, index) ==
    LET cache_entry == l.slab[index]
        s1   == [l.slab EXCEPT ![index] = SlabCacheEntry(cache_entry.value, l.tail, None)]
        prev == cache_entry.prev
        nxt  == cache_entry.nxt
        s2   == IF prev # None
                THEN [s1 EXCEPT ![prev] = SlabCacheEntry(s1[prev].value, s1[prev].prev, nxt)]
                ELSE s1
        s3   == IF nxt # None
                THEN [s2 EXCEPT ![nxt] = SlabCacheEntry(s2[nxt].value, prev, s2[nxt].nxt)]
                ELSE s2
        s4   == IF index # l.tail
                THEN [s3 EXCEPT ![l.tail] =
                         SlabCacheEntry(s3[l.tail].value, s3[l.tail].prev, index)]
                ELSE s3
        tl   == IF index # l.tail THEN index ELSE l.tail
        hd   == IF index = l.head THEN cache_entry.nxt ELSE l.head
    IN  [l EXCEPT !.slab = s4, !.tail = tl, !.head = hd]

\* returns the cache, the returned value (None when absent) and the exception
slab_get(l, key) ==
    IF key \in DOMAIN l.key_to_index
    THEN LET index == l.key_to_index[key]
             l1    == promote_to_mru(l, index)
         IN  [l |-> l1, result |-> l1.slab[index].value, raised |-> "none"]
    ELSE [l |-> l, result |-> None, raised |-> "none"]

\* LRUCache.put, case 1: key absent and size == capacity (evict the LRU)
slab_put_evict(l, key, new_cache_entry) ==
    LET index == l.head
    IN  IF index = None
        THEN [l |-> l, raised |-> "TypeError"]
        ELSE LET lru_cache_entry == l.slab[index]
             IN  IF lru_cache_entry.nxt = None
                 THEN [l |-> l, raised |-> "TypeError"]
                 ELSE LET old_head_nxt   == l.slab[lru_cache_entry.nxt]
                          new_head_entry == SlabCacheEntry(old_head_nxt.value, None,
                                                           old_head_nxt.nxt)
                          s1 == [l.slab EXCEPT ![lru_cache_entry.nxt] = new_head_entry]
                          s2 == [s1 EXCEPT ![index] = new_cache_entry]
                      IN  \* self.tail.nxt = index: self.tail is an int
                          [l |-> [l EXCEPT !.head = lru_cache_entry.nxt, !.slab = s2],
                           raised |-> "AttributeError"]

\* LRUCache.put, case 2: key absent and the slab is not full yet
slab_put_free(l, key, new_cache_entry) ==
    LET index == l.size
        s1 == [l.slab EXCEPT ![index] = new_cache_entry]
        hd == IF l.head = None THEN index ELSE l.head
        s2 == IF l.tail # None
              THEN [s1 EXCEPT ![l.tail] =
                       SlabCacheEntry(s1[l.tail].value, s1[l.tail].prev, index)]
              ELSE s1
    IN  [l |-> [l EXCEPT !.key_to_index = With(l.key_to_index, key, index),
                         !.slab = s2, !.head = hd, !.tail = index,
                         !.size = l.size + 1],
         raised |-> "none"]

\* LRUCache.put, edit case: key present
slab_put_edit(l, key, new_cache_entry) ==
    LET index == l.key_to_index[key]
        l1    == promote_to_mru(l, index)
    IN  [l |-> [l1 EXCEPT !.slab[index] = new_cache_entry], raised |-> "none"]

slab_put(l, key, value) ==
    LET prev == l.tail
        nxt  == None
        new_cache_entry == SlabCacheEntry(value, prev, nxt)
    IN  IF key \notin DOMAIN l.key_to_index
        THEN IF l.size = l.capacity
             THEN slab_put_evict(l, key, new_cache_entry)
             ELSE slab_put_free(l, key, new_cache_entry)
        ELSE slab_put_edit(l, key, new_cache_entry)

RECURSIVE slab_walk(_, _, _)
\* the slot indices met from slot p following nxt, at most n steps
slab_walk(slab, p, n) ==
    IF p = None \/ n = 0 THEN <<>>
    ELSE <<p>> \o slab_walk(slab, slab[p].nxt, n - 1)

RECURSIVE slab_walk_prev(_, _, _)
\* the slot indices met from slot p following prev, at most n steps
slab_walk_prev(slab, p, n) ==
    IF p = None \/ n = 0 THEN <<>>
    ELSE <<p>> \o slab_walk_prev(slab, slab[p].prev, n - 1)

\* the key mapped to a slot index (None when no key maps to it)
index_to_keys(l, i) ==
    IF \E k \in DOMAIN l.key_to_index : l.key_to_index[k] = i
    THEN CHOOSE k \in DOMAIN l.key_to_index : l.key_to_index[k] = i
    ELSE None

\* the head-to-tail sequence of keys that debug_str prints; one step more
\* than there are slots, so a cycle shows up as a longer sequence
debug_str(l) ==
    LET idx == slab_walk(l.slab, l.head, l.capacity + 1)
    IN  [i \in DOMAIN idx |-> index_to_keys(l, idx[i])]

\* ------------------------------------------------- src/main.py : MultiLevelCache
MultiLevelCache(capacity_l1, capacity_l2) ==
    [l1 |-> Cache(capacity_l1), l2 |-> Cache(capacity_l2)]

\* what fetch_func(key) may return: (False, None) or (True, data)
FetchResults == {DataResult(FALSE, None)} \cup {DataResult(TRUE, v) : v \in Vals}

\* an L1 hit that also queries L2
gof_l1_hit_queries_l2(m, key, r1) ==
    [m |-> [l1 |-> r1.c, l2 |-> get(m.l2, key).c], result |-> r1.result,
     fetches |-> 0, raised |-> "none"]

\* get_or_fetch, key found in L1: r1 is the outcome of l1.get(key)
gof_l1_hit(m, key, r1) ==
    [m |-> [m EXCEPT !.l1 = r1.c], result |-> r1.result,
     fetches |-> 0, raised |-> "none"]

\* an L2 hit that returns the value without inserting it into L1
gof_l2_hit_no_promotion(m, key, r1, r2) ==
    [m |-> [l1 |-> r1.c, l2 |-> r2.c], result |-> r2.result,
     fetches |-> 0, raised |-> "none"]

\* an L2 hit that inserts the data of the L1 result (a miss) into L1
gof_l2_hit_promotes_l1_result(m, key, r1, r2) ==
    LET p1 == put(r1.c, key, r1.result.data)
    IN  [m |-> [l1 |-> p1.c, l2 |-> r2.c], result |-> r2.result,
         fetches |-> 0, raised |-> p1.raised]

\* an L2 hit that calls fetch_func although the key was found
gof_l2_hit_fetches(m, key, r1, r2) ==
    LET p1 == put(r1.c, key, r2.result.data)
    IN  [m |-> [l1 |-> p1.c, l2 |-> r2.c], result |-> r2.result,
         fetches |-> 1, raised |-> p1.raised]

\* get_or_fetch, key found in L2: r1, r2 are the outcomes of l1.get, l2.get
gof_l2_hit(m, key, r1, r2) ==
    LET p1 == put(r1.c, key, r2.result.data)
    IN  [m |-> [l1 |-> p1.c, l2 |-> r2.c], result |-> r2.result,
         fetches |-> 0, raised |-> p1.raised]

\* a miss that stores whatever fetch_func returned, found or not
gof_miss_caches_not_found(m, key, r1, r2, fetched) ==
    LET p2 == put(r2.c, key, fetched.data)
        p1 == put(r1.c, key, fetched.data)
    IN  [m |-> [l1 |-> p1.c, l2 |-> p2.c],
         result |-> DataResult(fetched.found, fetched.data),
         fetches |-> 1, raised |-> "none"]

\* a miss that stores the fetched value in L1 only
gof_miss_skips_l2(m, key, r1, r2, fetched) ==
    IF ~fetched.found
    THEN [m |-> [l1 |-> r1.c, l2 |-> r2.c], result |-> DataResult(FALSE, None),
          fetches |-> 1, raised |-> "none"]
    ELSE LET p1 == put(r1.c, key, fetched.data)
         IN  [m |-> [l1 |-> p1.c, l2 |-> r2.c],
              result |-> DataResult(TRUE, fetched.data),
              fetches |-> 1, raised |-> p1.raised]

\* get_or_fetch, miss in both tiers: fetched is what fetch_func(key) returns
gof_miss(m, key, r1, r2, fetched) ==
    IF ~fetched.found
    THEN [m |-> [l1 |-> r1.c, l2 |-> r2.c], result |-> DataResult(FALSE, None),
          fetches |-> 1, raised |-> "none"]
    ELSE LET p2 == put(r2.c, key, fetched.data)
             p1 == put(r1.c, key, fetched.data)
         IN  IF p2.raised # "none"
             THEN [m |-> [l1 |-> r1.c, l2 |-> p2.c], result |-> DataResult(FALSE, None),
                   fetches |-> 1, raised |-> p2.raised]
             ELSE [m |-> [l1 |-> p1.c, l2 |-> p2.c],
                   result |-> DataResult(TRUE, fetched.data),
                   fetches |-> 1, raised |-> p1.raised]

get_or_fetch(m, key, fetched) ==
    LET r1 == get(m.l1, key)
    IN  IF r1.raised # "none"
        THEN [m |-> m, result |-> DataResult(FALSE, None),
              fetches |-> 0, raised |-> r1.raised]
        ELSE IF r1.result.found
        THEN gof_l1_hit(m, key, r1)
        ELSE LET r2 == get(m.l2, key)
             IN  IF r2.raised # "none"
                 THEN [m |-> m, result |-> DataResult(FALSE, None),
                       fetches |-> 0, raised |-> r2.raised]
                 ELSE IF r2.result.found
                 THEN gof_l2_hit(m, key, r1, r2)
                 ELSE gof_miss(m, key, r1, r2, fetched)

\* a put that writes through to L2 as well
ml_put_writes_through(m, key, value) ==
    LET p1 == put(m.l1, key, value)
        p2 == put(m.l2, key, value)
    IN  [m |-> [l1 |-> p1.c, l2 |-> p2.c], raised |-> p1.raised]

ml_put(m, key, value) ==
    LET p1 == put(m.l1, key, value)
    IN  [m |-> [m EXCEPT !.l1 = p1.c], raised |-> p1.raised]

\* the l1_keys and l2_keys of stats()
stats(m) == [l1_keys |-> debug_print(m.l1.lru_deque),
             l2_keys |-> debug_print(m.l2.lru_deque)]

\* ------------------------------------------------- node-based Cache driver
NoOp == [op |-> "init", key |-> None, value |-> None, found |-> FALSE, data |-> None]

InitCache(caps) ==
    /\ \E capacity \in caps : c = Cache(capacity)
    /\ pre = c
    /\ last = NoOp
    /\ written = [k \in Keys |-> None]
    /\ err = "none"

InitSlab(caps) ==
    /\ \E capacity \in caps : lru = LRUCache(capacity)
    /\ lpre = lru
    /\ llast = NoOp
    /\ lerr = "none"

MLNoOp == [op |-> "init", key |-> None, value |-> None,
           fetched |-> DataResult(FALSE, None), fetches |-> 0,
           found |-> FALSE, data |-> None]

InitML(caps) ==
    /\ \E capacity_l1 \in caps, capacity_l2 \in caps :
           ml = MultiLevelCache(capacity_l1, capacity_l2)
    /\ mpre = ml
    /\ mlast = MLNoOp
    /\ merr = "none"

\* a fetch function that finds no key
NoDb == [k \in MLKeys |-> DataResult(FALSE, None)]

InitDb(dbs) == db \in dbs

DequeNoOp == [op |-> "init", arg |-> None, node |-> None]

InitDeque ==
    /\ deque = Deque
    /\ dpre = deque
    /\ dlast = DequeNoOp
    /\ dmisused = FALSE
    /\ derr = "none"

Init == InitCache(Caps) /\ InitSlab({1}) /\ InitML({1}) /\ InitDb({NoDb}) /\ InitDeque

\* one allocation is left for the node the operation may create
CanAlloc(cc) == Len(cc.lru_deque.heap) < MaxNodes

Get(key) ==
    /\ err = "none"
    /\ CanAlloc(c)
    /\ LET r == get(c, key)
       IN  /\ c' = r.c
           /\ err' = r.raised
           /\ last' = [op |-> "get", key |-> key, value |-> None,
                       found |-> r.result.found, data |-> r.result.data]
    /\ pre' = c
    /\ UNCHANGED written

Put(key, value) ==
    /\ err = "none"
    /\ CanAlloc(c)
    /\ LET r == put(c, key, value)
       IN  /\ c' = r.c
           /\ err' = r.raised
           /\ last' = [op |-> "put", key |-> key, value |-> value,
                       found |-> FALSE, data |-> None]
    /\ pre' = c
    /\ written' = [written EXCEPT ![key] = value]

Next ==
    \/ \E key \in Keys : Get(key) /\ UNCHANGED <<slabVars, mlVars, db, dequeVars>>
    \/ \E key \in Keys, value \in Vals : Put(key, value) /\ UNCHANGED <<slabVars, mlVars, db, dequeVars>>

Spec == Init /\ [][Next]_vars

\* ------------------------------------------------- slab LRUCache driver
\* An exception is not caught anywhere in the source: it ends the run.
InitL ==
    InitCache({1}) /\ InitSlab(Caps) /\ InitML({1}) /\ InitDb({NoDb}) /\ InitDeque

SlabGet(key) ==
    /\ lerr = "none"
    /\ LET r == slab_get(lru, key)
       IN  /\ lru' = r.l
           /\ lerr' = r.raised
           /\ llast' = [op |-> "get", key |-> key, value |-> None,
                        found |-> r.result # None, data |-> r.result]
    /\ lpre' = lru

SlabPut(key, value) ==
    /\ lerr = "none"
    /\ LET r == slab_put(lru, key, value)
       IN  /\ lru' = r.l
           /\ lerr' = r.raised
           /\ llast' = [op |-> "put", key |-> key, value |-> value,
                        found |-> FALSE, data |-> None]
    /\ lpre' = lru

NextL ==
    \/ \E key \in Keys : SlabGet(key) /\ UNCHANGED <<cacheVars, mlVars, db, dequeVars>>
    \/ \E key \in Keys, value \in Vals : SlabPut(key, value) /\ UNCHANGED <<cacheVars, mlVars, db, dequeVars>>

SpecL == InitL /\ [][NextL]_vars

\* ------------------------------------------------- MultiLevelCache driver
InitM ==
    InitCache({1}) /\ InitSlab({1}) /\ InitML(Caps) /\ InitDb({NoDb}) /\ InitDeque

\* each tier may allocate one node in an operation
CanAllocML(m) ==
    /\ Len(m.l1.lru_deque.heap) < MaxNodesML
    /\ Len(m.l2.lru_deque.heap) < MaxNodesML

GetOrFetch(key, fetched) ==
    /\ merr = "none"
    /\ CanAllocML(ml)
    /\ LET r == get_or_fetch(ml, key, fetched)
       IN  /\ ml' = r.m
           /\ merr' = r.raised
           /\ mlast' = [op |-> "get_or_fetch", key |-> key, value |-> None,
                        fetched |-> fetched, fetches |-> r.fetches,
                        found |-> r.result.found, data |-> r.result.data]
    /\ mpre' = ml

MLPut(key, value) ==
    /\ merr = "none"
    /\ CanAllocML(ml)
    /\ LET r == ml_put(ml, key, value)
       IN  /\ ml' = r.m
           /\ merr' = r.raised
           /\ mlast' = [op |-> "put", key |-> key, value |-> value,
                        fetched |-> DataResult(FALSE, None), fetches |-> 0,
                        found |-> FALSE, data |-> None]
    /\ mpre' = ml

NextM ==
    \/ \E key \in MLKeys, fetched \in FetchResults :
          GetOrFetch(key, fetched) /\ UNCHANGED <<cacheVars, slabVars, db, dequeVars>>
    \/ \E key \in MLKeys, value \in Vals :
          MLPut(key, value) /\ UNCHANGED <<cacheVars, slabVars, db, dequeVars>>

SpecM == InitM /\ [][NextM]_vars

\* ------------------------------------------------- MultiLevelCache with one fetch function
\* Every call passes the same deterministic fetch function db, and
\* MultiLevelCache.put is never called.
FetchFuncs == [MLKeys -> FetchResults]

InitF ==
    InitCache({1}) /\ InitSlab({1}) /\ InitML(Caps) /\ InitDb(FetchFuncs) /\ InitDeque

NextF ==
    \E key \in MLKeys :
        GetOrFetch(key, db[key]) /\ UNCHANGED <<cacheVars, slabVars, db, dequeVars>>

SpecF == InitF /\ [][NextF]_vars

\* ------------------------------------------------- Deque driver
InitD ==
    InitCache({1}) /\ InitSlab({1}) /\ InitML({1}) /\ InitDb({NoDb}) /\ InitDeque

DequeAppend(val) ==
    /\ derr = "none"
    /\ Len(deque.heap) < MaxNodes
    /\ LET r == append(deque, val)
       IN  /\ deque' = r.d
           /\ dlast' = [op |-> "append", arg |-> val, node |-> r.node]
    /\ dpre' = deque
    /\ UNCHANGED <<dmisused, derr>>

DequePopLeft ==
    /\ derr = "none"
    /\ LET r == pop_left(deque)
       IN  /\ deque' = r.d
           /\ dlast' = [op |-> "pop_left", arg |-> None, node |-> r.node]
    /\ dpre' = deque
    /\ UNCHANGED <<dmisused, derr>>

\* node is any DequeNode that append has returned so far
DequeRemoveNode(node) ==
    /\ derr = "none"
    /\ LET r == remove_node(deque, node)
       IN  /\ deque' = r.d
           /\ derr' = r.raised
           /\ dlast' = [op |-> "remove_node", arg |-> node, node |-> None]
    /\ dmisused' = (dmisused \/ node \notin linked(deque))
    /\ dpre' = deque

NextD ==
    \/ \E val \in Keys :
          DequeAppend(val) /\ UNCHANGED <<cacheVars, slabVars, mlVars, db>>
    \/ DequePopLeft /\ UNCHANGED <<cacheVars, slabVars, mlVars, db>>
    \/ \E node \in 1..Len(deque.heap) :
          DequeRemoveNode(node) /\ UNCHANGED <<cacheVars, slabVars, mlVars, db>>

SpecD == InitD /\ [][NextD]_vars

\* ------------------------------------------------- caches built with capacity <= 0
\* No constructor checks its capacity: Cache(0), Cache(-1) and LRUCache(0)
\* all return an object, which then takes get and put calls.
NonPositiveCaps == (0 - 1)..0

InitZ ==
    InitCache(NonPositiveCaps) /\ InitSlab({0}) /\ InitML({1}) /\ InitDb({NoDb}) /\ InitDeque

NextZ ==
    \/ \E key \in Keys : Get(key) /\ UNCHANGED <<slabVars, mlVars, db, dequeVars>>
    \/ \E key \in Keys, value \in Vals :
          Put(key, value) /\ UNCHANGED <<slabVars, mlVars, db, dequeVars>>
    \/ \E key \in Keys : SlabGet(key) /\ UNCHANGED <<cacheVars, mlVars, db, dequeVars>>
    \/ \E key \in Keys, value \in Vals :
          SlabPut(key, value) /\ UNCHANGED <<cacheVars, mlVars, db, dequeVars>>

SpecZ == InitZ /\ [][NextZ]_vars

\* ------------------------------------------------- node-based Cache: claims
KeysOf(cc) == DOMAIN cc.store

Order(cc) == debug_print(cc.lru_deque)

SeqSet(s) == {s[i] : i \in DOMAIN s}

Completed == err = "none" /\ last.op # "init"

InsertAtCapacity ==
    /\ last.op = "put"
    /\ last.key \notin KeysOf(pre)
    /\ Cardinality(KeysOf(pre)) = pre.capacity

\* C1: after every completed put or get the store holds at most `capacity`
\* keys, and its key set is exactly the set of keys met from lru_deque.head
\* following nxt, each key met once.
C1_SizeAndKeySet ==
    Completed =>
        /\ Cardinality(KeysOf(c)) <= c.capacity
        /\ SeqSet(Order(c)) = KeysOf(c)
        /\ Len(Order(c)) = Cardinality(KeysOf(c))

C1_Witness ==
    /\ Completed
    /\ InsertAtCapacity
    /\ Cardinality(KeysOf(c)) = c.capacity
    /\ c.capacity >= 2

\* C2: right after any put(k, v), and right after any get(k) that found k,
\* k is the last element of the head-to-tail sequence and lru_deque.tail.val = k.
C2_AccessedKeyIsMRU ==
    (Completed /\ (last.op = "put" \/ (last.op = "get" /\ last.found))) =>
        /\ Order(c) # <<>>
        /\ Last(Order(c)) = last.key
        /\ c.lru_deque.tail # None
        /\ c.lru_deque.heap[c.lru_deque.tail].val = last.key

C2_Witness ==
    /\ Completed
    /\ last.op = "get"
    /\ last.found
    /\ Len(Order(pre)) >= 2
    /\ Order(pre)[1] = last.key
    /\ Last(Order(c)) = last.key

\* C3: a key leaves the cache only in a put of an absent key into a cache
\* already holding `capacity` keys; that put removes exactly the key at the
\* head of the recency order before the put, and never the key being put.
\* No get and no put of a present key removes a key.
C3_EvictionOnlyOfLRU ==
    Completed =>
        LET removed == KeysOf(pre) \ KeysOf(c)
        IN  /\ removed # {} => InsertAtCapacity
            /\ InsertAtCapacity =>
                   /\ removed = {Order(pre)[1]}
                   /\ last.key \in KeysOf(c)

C3_Witness ==
    /\ Completed
    /\ InsertAtCapacity
    /\ KeysOf(pre) \ KeysOf(c) = {Order(pre)[1]}
    /\ Len(Order(pre)) >= 2
    /\ pre.lru_deque.head # 1

C5_GetRoundTrip ==
    (Completed /\ last.op = "get") =>
        IF last.key \in KeysOf(pre)
        THEN last.found /\ last.data = written[last.key]
        ELSE ~last.found /\ last.data = None /\ c = pre

C5_Witness ==
    /\ Completed
    /\ last.op = "get"
    /\ last.found
    /\ last.data = written[last.key]
    /\ \E k \in Keys : written[k] # None /\ k \notin KeysOf(pre)

\* ------------------------------------------------- slab LRUCache: claims
SlabKeys(l) == DOMAIN l.key_to_index

SlabCompleted == lerr = "none" /\ llast.op # "init"

SlabInsertAtCapacity ==
    /\ llast.op = "put"
    /\ llast.key \notin SlabKeys(lpre)
    /\ lpre.size = lpre.capacity
    /\ lpre.capacity >= 2

\* C6: get(k) of a cached key k, in a state reached without any eviction,
\* returns the value stored for k (so repeated gets return the same value),
\* and after the call k is the last element of the head-to-tail sequence,
\* which still holds every cached key exactly once.
C6_RepeatedGetKeepsChain ==
    (SlabCompleted /\ llast.op = "get" /\ llast.key \in SlabKeys(lpre)) =>
        /\ llast.data = lpre.slab[lpre.key_to_index[llast.key]].value
        /\ debug_str(lru) # <<>>
        /\ Last(debug_str(lru)) = llast.key
        /\ SeqSet(debug_str(lru)) = SlabKeys(lru)
        /\ Len(debug_str(lru)) = Cardinality(SlabKeys(lru))

\* C7: with capacity >= 2, put(k, v) of an absent key into a full cache
\* completes without raising, removes the head key from key_to_index, maps k
\* to the slot the evicted key occupied, makes k the last element of the
\* head-to-tail sequence and the former second-oldest key the head, leaves
\* size = capacity; afterwards get(k) returns v and get of the evicted key
\* reports absent.
C7_EvictionRecyclesSlot ==
    SlabInsertAtCapacity =>
        /\ lerr = "none"
        /\ lpre.head # None
        /\ index_to_keys(lpre, lpre.head) \notin SlabKeys(lru)
        /\ llast.key \in SlabKeys(lru)
        /\ lru.key_to_index[llast.key] = lpre.head
        /\ Last(debug_str(lru)) = llast.key
        /\ lru.head = lpre.slab[lpre.head].nxt
        /\ lru.size = lru.capacity
        /\ slab_get(lru, llast.key).result = llast.value
        /\ slab_get(lru, index_to_keys(lpre, lpre.head)).result = None

\* ------------------------------------------------- MultiLevelCache: claims
MLCompleted == merr = "none" /\ mlast.op # "init"

ValuesOf(cc) == [k \in KeysOf(cc) |-> cc.store[k].value]

InL1 == mlast.key \in KeysOf(mpre.l1)

InL2 == mlast.key \in KeysOf(mpre.l2)

\* C8: get_or_fetch(key, fetch) with key in neither tier and fetch reporting
\* not-found returns found=False and leaves L1 and L2 exactly as they were;
\* nothing is cached for the key, so the same call again gives the same
\* result and the same unchanged state.
C8_NotFoundMutatesNothing ==
    (MLCompleted /\ mlast.op = "get_or_fetch" /\ ~InL1 /\ ~InL2
       /\ ~mlast.fetched.found) =>
        /\ ~mlast.found
        /\ mlast.data = None
        /\ ml = mpre
        /\ LET again == get_or_fetch(ml, mlast.key, DataResult(FALSE, None))
           IN  /\ ~again.result.found
               /\ again.m = ml
               /\ again.raised = "none"

C8_Witness ==
    /\ MLCompleted
    /\ mlast.op = "get_or_fetch"
    /\ ~InL1 /\ ~InL2
    /\ ~mlast.fetched.found
    /\ ~mlast.found
    /\ Cardinality(KeysOf(mpre.l1)) = mpre.l1.capacity
    /\ Cardinality(KeysOf(mpre.l2)) = mpre.l2.capacity

C10_L2HitPromotesToL1 ==
    (MLCompleted /\ mlast.op = "get_or_fetch" /\ ~InL1 /\ InL2) =>
        /\ mlast.found
        /\ mlast.data = mpre.l2.store[mlast.key].value
        /\ mlast.key \in KeysOf(ml.l1)
        /\ ml.l1.store[mlast.key].value = mlast.data
        /\ Last(Order(ml.l1)) = mlast.key
        /\ KeysOf(mpre.l1) \ KeysOf(ml.l1) =
              IF Cardinality(KeysOf(mpre.l1)) = mpre.l1.capacity
              THEN {Order(mpre.l1)[1]}
              ELSE {}
        /\ Last(Order(ml.l2)) = mlast.key
        /\ KeysOf(ml.l2) = KeysOf(mpre.l2)
        /\ ValuesOf(ml.l2) = ValuesOf(mpre.l2)

C10_Witness ==
    /\ MLCompleted
    /\ mlast.op = "get_or_fetch"
    /\ ~InL1 /\ InL2
    /\ mlast.found
    /\ Cardinality(KeysOf(mpre.l1)) = mpre.l1.capacity
    /\ Order(mpre.l1)[1] \notin KeysOf(ml.l1)
    /\ Len(Order(mpre.l2)) >= 2
    /\ Order(mpre.l2)[1] = mlast.key
    /\ Last(Order(ml.l2)) = mlast.key

\* the keys a tier lost in the last operation, and what it may lose: its own
\* LRU key when it was full and the key is new to it, nothing otherwise
Evicted(before, after) == KeysOf(before) \ KeysOf(after)

MayEvict(before, key) ==
    IF key \notin KeysOf(before) /\ Cardinality(KeysOf(before)) = before.capacity
    THEN {Order(before)[1]}
    ELSE {}

\* C11: get_or_fetch(key, fetch) with key in neither tier and fetch finding
\* value v returns found=True with v; afterwards key is in L1 and in L2 with
\* value v and is the MRU key of each tier; each tier evicts only its own LRU
\* key, and only if that tier was already full.
C11_FetchedKeyInBothTiers ==
    (MLCompleted /\ mlast.op = "get_or_fetch" /\ ~InL1 /\ ~InL2
       /\ mlast.fetched.found) =>
        /\ mlast.found
        /\ mlast.data = mlast.fetched.data
        /\ mlast.key \in KeysOf(ml.l1)
        /\ mlast.key \in KeysOf(ml.l2)
        /\ ml.l1.store[mlast.key].value = mlast.fetched.data
        /\ ml.l2.store[mlast.key].value = mlast.fetched.data
        /\ Last(Order(ml.l1)) = mlast.key
        /\ Last(Order(ml.l2)) = mlast.key
        /\ Evicted(mpre.l1, ml.l1) = MayEvict(mpre.l1, mlast.key)
        /\ Evicted(mpre.l2, ml.l2) = MayEvict(mpre.l2, mlast.key)
        /\ KeysOf(ml.l1) = (KeysOf(mpre.l1) \ MayEvict(mpre.l1, mlast.key)) \cup {mlast.key}
        /\ KeysOf(ml.l2) = (KeysOf(mpre.l2) \ MayEvict(mpre.l2, mlast.key)) \cup {mlast.key}

\* L1 evicts while L2, not yet full, does not
C11_Witness ==
    /\ MLCompleted
    /\ mlast.op = "get_or_fetch"
    /\ ~InL1 /\ ~InL2
    /\ mlast.fetched.found
    /\ mlast.found
    /\ Evicted(mpre.l1, ml.l1) # {}
    /\ KeysOf(mpre.l2) # {}
    /\ Evicted(mpre.l2, ml.l2) = {}
    /\ mlast.key \in KeysOf(ml.l2)

\* C12: MultiLevelCache.put(key, value) changes only L1: afterwards L1 holds
\* key with value at its MRU end (having evicted its LRU key if it was full
\* and key was new), and L2 is exactly as before, even when L2 holds a
\* different value for key.
C12_PutWritesOnlyL1 ==
    (MLCompleted /\ mlast.op = "put") =>
        /\ mlast.key \in KeysOf(ml.l1)
        /\ ml.l1.store[mlast.key].value = mlast.value
        /\ Last(Order(ml.l1)) = mlast.key
        /\ Evicted(mpre.l1, ml.l1) = MayEvict(mpre.l1, mlast.key)
        /\ ml.l2 = mpre.l2

C12_Witness ==
    /\ MLCompleted
    /\ mlast.op = "put"
    /\ InL2
    /\ mpre.l2.store[mlast.key].value # mlast.value
    /\ ml.l1.store[mlast.key].value = mlast.value
    /\ ml.l2 = mpre.l2

\* C13: a call of get_or_fetch invokes fetch exactly once if key is in
\* neither tier when the call starts and not at all otherwise; a key whose
\* fetch reported not-found is fetched afresh by the next call for it.
C13_FetchCallCount ==
    (MLCompleted /\ mlast.op = "get_or_fetch") =>
        /\ mlast.fetches = (IF ~InL1 /\ ~InL2 THEN 1 ELSE 0)
        /\ (~InL1 /\ ~InL2 /\ ~mlast.fetched.found) =>
               \A fetched \in FetchResults :
                   get_or_fetch(ml, mlast.key, fetched).fetches = 1

C13_Witness ==
    /\ MLCompleted
    /\ mlast.op = "get_or_fetch"
    /\ ~InL1 /\ InL2
    /\ mlast.fetches = 0
    /\ \E k \in MLKeys : k \notin KeysOf(ml.l1) /\ k \notin KeysOf(ml.l2)

\* ------------------------------------------------- further claims on the two LRU caches
SlabFromHead(l) == slab_walk(l.slab, l.head, l.capacity + 1)

SlabFromTail(l) == slab_walk_prev(l.slab, l.tail, l.capacity + 1)

SlabSlots(l) == {l.key_to_index[k] : k \in SlabKeys(l)}

\* C17: after every get and put that never inserts more than `capacity`
\* distinct keys: following nxt from head visits each cached key's slot
\* exactly once and ends at tail; following prev from tail visits the same
\* slots in reverse order; slab[head].prev and slab[tail].nxt are None; head
\* and tail are None only when the cache is empty; size is the number of keys.
C17_SlabChainIntact ==
    lerr = "none" =>
        /\ SeqSet(SlabFromHead(lru)) = SlabSlots(lru)
        /\ Len(SlabFromHead(lru)) = Cardinality(SlabKeys(lru))
        /\ SlabFromHead(lru) # <<>> => Last(SlabFromHead(lru)) = lru.tail
        /\ SlabFromTail(lru) = [i \in 1..Len(SlabFromHead(lru)) |->
              SlabFromHead(lru)[Len(SlabFromHead(lru)) + 1 - i]]
        /\ lru.head # None => lru.slab[lru.head].prev = None
        /\ lru.tail # None => lru.slab[lru.tail].nxt = None
        /\ (lru.head = None) <=> (SlabKeys(lru) = {})
        /\ (lru.tail = None) <=> (SlabKeys(lru) = {})
        /\ lru.size = Cardinality(SlabKeys(lru))

\* C15: with capacity 1, for the node-based Cache and for the slab LRUCache,
\* after every operation: nothing raised, the cache holds at most one key,
\* head and tail refer to the same entry and are None only when the cache is
\* empty, and after a put of a key, get of that key returns the value put.
C15_CapacityOne ==
    /\ c.capacity = 1 =>
          /\ err = "none"
          /\ Cardinality(KeysOf(c)) <= 1
          /\ c.lru_deque.head = c.lru_deque.tail
          /\ (c.lru_deque.head = None) <=> (KeysOf(c) = {})
          /\ last.op = "put" => get(c, last.key).result = DataResult(TRUE, last.value)
    /\ lru.capacity = 1 =>
          /\ lerr = "none"
          /\ Cardinality(SlabKeys(lru)) <= 1
          /\ lru.head = lru.tail
          /\ (lru.head = None) <=> (SlabKeys(lru) = {})
          /\ llast.op = "put" => slab_get(lru, llast.key).result = llast.value

\* the node part of C15 alone
CapacityOneNodeCache ==
    c.capacity = 1 =>
        /\ err = "none"
        /\ Cardinality(KeysOf(c)) <= 1
        /\ c.lru_deque.head = c.lru_deque.tail
        /\ (c.lru_deque.head = None) <=> (KeysOf(c) = {})
        /\ last.op = "put" => get(c, last.key).result = DataResult(TRUE, last.value)

\* C19: no put or get on the node-based Cache raises: the deque is never
\* empty while the store holds a key, and every lru_node kept in the store is
\* a node currently linked in lru_deque.
C19_NeverRaises ==
    /\ err = "none"
    /\ KeysOf(c) # {} => c.lru_deque.head # None /\ c.lru_deque.tail # None
    /\ \A k \in KeysOf(c) :
          /\ c.store[k].lru_node \in linked(c.lru_deque)
          /\ c.lru_deque.heap[c.store[k].lru_node].val = k
    /\ \A key \in Keys, value \in Vals :
          get(c, key).raised = "none" /\ put(c, key, value).raised = "none"

\* a found get of the head key, after an eviction and a promotion have left
\* unlinked nodes behind
C19_Witness ==
    /\ Completed
    /\ last.op = "get"
    /\ last.found
    /\ Len(Order(pre)) >= 2
    /\ Order(pre)[1] = last.key
    /\ Len(pre.lru_deque.heap) > Cardinality(KeysOf(pre))
    /\ \E k \in Keys : written[k] # None /\ k \notin KeysOf(pre)

\* C14: a cache built with capacity <= 0 is rejected at construction time,
\* before any put is attempted: no Cache with capacity <= 0 completes a put,
\* and no LRUCache with capacity <= 0 is handed a put at all.
C14_NonPositiveCapacityRejected ==
    /\ c.capacity <= 0 => ~(last.op = "put" /\ err = "none")
    /\ lru.capacity <= 0 => llast.op # "put"

\* ------------------------------------------------- one fetch function: claims
HoldsFetched(cc) ==
    \A k \in KeysOf(cc) : db[k].found /\ cc.store[k].value = db[k].data

\* C20: driven only by get_or_fetch calls with one fixed deterministic fetch
\* function, every key cached in L1 or in L2 holds exactly the value fetch
\* returns for it (so a key in both tiers has equal values in both), and
\* every found=True result of get_or_fetch(key) equals fetch(key).
C20_CachedValuesAreFetched ==
    /\ HoldsFetched(ml.l1)
    /\ HoldsFetched(ml.l2)
    /\ \A k \in KeysOf(ml.l1) \cap KeysOf(ml.l2) :
           ml.l1.store[k].value = ml.l2.store[k].value
    /\ (MLCompleted /\ mlast.op = "get_or_fetch" /\ mlast.found) =>
           /\ db[mlast.key].found
           /\ mlast.data = db[mlast.key].data

C20_Witness ==
    /\ MLCompleted
    /\ mlast.op = "get_or_fetch"
    /\ ~InL1 /\ InL2
    /\ mlast.found
    /\ mlast.key \in KeysOf(ml.l1) \cap KeysOf(ml.l2)
    /\ Cardinality(KeysOf(ml.l2)) >= 2
    /\ \E k \in MLKeys : k # mlast.key /\ db[k].found /\ db[k].data # db[mlast.key].data

\* ------------------------------------------------- Deque: claims
Reverse(s) == [i \in 1..Len(s) |-> s[Len(s) + 1 - i]]

FromHead(d) == walk_nodes(d.heap, d.head, TRUE, Len(d.heap) + 1)

FromTail(d) == walk_nodes(d.heap, d.tail, FALSE, Len(d.heap) + 1)

\* C16: after any sequence of append, pop_left and remove_node of linked
\* nodes: a non-empty deque has head.prev = None and tail.nxt = None, and the
\* nodes met from head following nxt are exactly the reverse of the nodes met
\* from tail following prev; an empty deque has head and tail both None.
C16_DequeChainSymmetric ==
    (derr = "none" /\ ~dmisused) =>
        IF deque.head = None \/ deque.tail = None
        THEN deque.head = None /\ deque.tail = None
        ELSE /\ deque.heap[deque.head].prev = None
             /\ deque.heap[deque.tail].nxt = None
             /\ FromHead(deque) = Reverse(FromTail(deque))

\* C18: remove_node given a node that is not linked in the deque raises and
\* leaves head, tail and all links unchanged, whether or not the deque is
\* empty.
C18_RemoveUnlinkedRaises ==
    (dlast.op = "remove_node" /\ dlast.arg \notin linked(dpre)) =>
        /\ derr # "none"
        /\ deque = dpre

====
